---- MODULE Spec2Model ----
(***************************************************************************)
(* Model of bootstrap.py: a two-pass translator from a line-oriented       *)
(* instruction language to x86-64 machine code wrapped in a minimal ELF    *)
(* image.                                                                  *)
(*                                                                         *)
(* A source line is modelled after tokenisation (line 59) as `parts`, a    *)
(* sequence of tokens; a token is a sequence of one-character strings, so  *)
(* that startswith / isdigit / int() are computed character by character.  *)
(* A byte is a number in 0..255 and a byte string a sequence of bytes.     *)
(* A Python int is unbounded; the immediates the program parses are kept   *)
(* as sign + little-endian magnitude so that no width is lost.             *)
(***************************************************************************)
EXTENDS Integers, Sequences, FiniteSets, TLC

VARIABLES
  lines,    \* the source, one `parts` per line (main, line 220)
  pc,       \* position in main: "pass1", "pass2", "build", "write", "done", "error"
  idx,      \* number of lines the current pass has processed
  c,        \* the pass-1 Compiler: code, scope_stack, label_counter
  c2,       \* the pass-2 Compiler
  labels,   \* the one label dict that c.labels and c2.labels both refer to
  binary,   \* the image make_elf returned
  written,  \* whether the output file has been written
  err,      \* the exception that ended the translation, or "none"
  trace1,   \* len(c.code) after each line of pass 1
  trace2,   \* len(c2.code) after each line of pass 2
  events    \* the labels allocated (new_label) and bound (labels[label] = ...), in order

vars == <<lines, pc, idx, c, c2, labels, binary, written, err, trace1, trace2, events>>

(***************************************************************************)
(* Bounds of the model.                                                    *)
(***************************************************************************)
MaxLines == 5
MaxCode == 4

(***************************************************************************)
(* Characters and tokens.                                                  *)
(***************************************************************************)
DecChars == <<"0", "1", "2", "3", "4", "5", "6", "7", "8", "9">>
HexLower == <<"0", "1", "2", "3", "4", "5", "6", "7", "8", "9", "a", "b", "c", "d", "e", "f">>
HexUpper == <<"0", "1", "2", "3", "4", "5", "6", "7", "8", "9", "A", "B", "C", "D", "E", "F">>

Range(s) == {s[i] : i \in DOMAIN s}

IsDecChar(ch) == ch \in Range(DecChars)
IsHexChar(ch) == ch \in Range(HexLower) \cup Range(HexUpper)

\* value of a digit character in base 10 or 16
DigitVal(ch) ==
  IF ch \in Range(HexLower)
    THEN (CHOOSE i \in DOMAIN HexLower : HexLower[i] = ch) - 1
    ELSE (CHOOSE i \in DOMAIN HexUpper : HexUpper[i] = ch) - 1

\* str.startswith
startswith(s, p) == Len(s) >= Len(p) /\ SubSeq(s, 1, Len(p)) = p

\* str.isdigit: non-empty and every character a decimal digit
isdigit(s) == Len(s) > 0 /\ \A i \in DOMAIN s : IsDecChar(s[i])

(***************************************************************************)
(* Python integers of arbitrary size: [neg, mag], mag the little-endian    *)
(* base-256 magnitude without high-order zero bytes (zero is <<>>).        *)
(***************************************************************************)
RECURSIVE MulAdd(_, _, _)
MulAdd(m, k, carry) ==
  IF m = <<>>
    THEN IF carry = 0 THEN <<>> ELSE <<carry % 256>> \o MulAdd(<<>>, k, carry \div 256)
    ELSE LET v == m[1] * k + carry
         IN  <<v % 256>> \o MulAdd(Tail(m), k, v \div 256)

RECURSIVE DigitsToMag(_, _, _)
DigitsToMag(s, base, acc) ==
  IF s = <<>> THEN acc
  ELSE DigitsToMag(Tail(s), base, MulAdd(acc, base, DigitVal(s[1])))

PyInt(neg, mag) == [neg |-> neg /\ mag # <<>>, mag |-> mag]

\* int(s): optional sign, then one or more decimal digits
int10(s) ==
  LET signed == Len(s) > 0 /\ s[1] \in {"+", "-"}
      body == IF signed THEN Tail(s) ELSE s
  IN  IF isdigit(body)
        THEN [ok |-> TRUE, val |-> PyInt(signed /\ s[1] = "-", DigitsToMag(body, 10, <<>>))]
        ELSE [ok |-> FALSE, val |-> PyInt(FALSE, <<>>)]

\* int(s, 16) for s that starts with 0x: the prefix, then one or more hex digits
int16(s) ==
  LET body == SubSeq(s, 3, Len(s))
  IN  IF Len(body) > 0 /\ \A i \in DOMAIN body : IsHexChar(body[i])
        THEN [ok |-> TRUE, val |-> PyInt(FALSE, DigitsToMag(body, 16, <<>>))]
        ELSE [ok |-> FALSE, val |-> PyInt(FALSE, <<>>)]

\* parse_imm: ok = FALSE stands for the ValueError int() raises
parse_imm(s) == IF startswith(s, <<"0", "x">>) THEN int16(s) ELSE int10(s)

(***************************************************************************)
(* struct.pack and bytes().                                                *)
(***************************************************************************)
RECURSIVE Pad(_, _)
Pad(m, n) == IF Len(m) >= n THEN SubSeq(m, 1, n) ELSE Pad(m \o <<0>>, n)

RECURSIVE LE(_, _)
LE(v, n) == IF n = 0 THEN <<>> ELSE <<v % 256>> \o LE(v \div 256, n - 1)

Complement(b) == [i \in DOMAIN b |-> 255 - b[i]]

RECURSIVE AddOne(_)
AddOne(b) ==
  IF b = <<>> THEN <<>>
  ELSE IF b[1] = 255 THEN <<0>> \o AddOne(Tail(b)) ELSE <<b[1] + 1>> \o Tail(b)

\* struct.pack('<I', v) accepts 0 <= v <= 2^32 - 1, else struct.error
pack_I_ok(v) == ~v.neg /\ Len(v.mag) <= 4
pack_I(v) == Pad(v.mag, 4)

\* struct.pack('<Q', v & 0xFFFFFFFFFFFFFFFF): two's complement modulo 2^64
pack_Q_masked(v) ==
  IF v.neg THEN AddOne(Complement(Pad(v.mag, 8))) ELSE Pad(v.mag, 8)

\* struct.pack('<i', rel) accepts -2^31 <= rel <= 2^31 - 1, else struct.error
pack_i_ok(rel) == rel >= -2147483647 - 1 /\ rel <= 2147483647
pack_i(rel) == IF rel >= 0 THEN LE(rel, 4) ELSE Complement(LE(-rel - 1, 4))

\* struct.pack('<H' / '<I' / '<Q', v) for the small constants of make_elf
pack_H(v) == LE(v, 2)
pack_U32(v) == LE(v, 4)
pack_Q(v) == LE(v, 8)

\* 0 <= imm <= 127 on a Python integer
FitsImm8(v) == ~v.neg /\ (v.mag = <<>> \/ (Len(v.mag) = 1 /\ v.mag[1] <= 127))
Imm8(v) == IF v.mag = <<>> THEN 0 ELSE v.mag[1]

(***************************************************************************)
(* Tokens of the source language.                                          *)
(***************************************************************************)
rax == <<"r", "a", "x">>
rcx == <<"r", "c", "x">>
rdx == <<"r", "d", "x">>
rbx == <<"r", "b", "x">>
rsp == <<"r", "s", "p">>
rbp == <<"r", "b", "p">>
rsi == <<"r", "s", "i">>
rdi == <<"r", "d", "i">>
r8 == <<"r", "8">>
r9 == <<"r", "9">>
r10 == <<"r", "1", "0">>
r11 == <<"r", "1", "1">>
r12 == <<"r", "1", "2">>
r13 == <<"r", "1", "3">>
r14 == <<"r", "1", "4">>
r15 == <<"r", "1", "5">>

REG ==
  (rax :> 0) @@ (rcx :> 1) @@ (rdx :> 2) @@ (rbx :> 3) @@
  (rsp :> 4) @@ (rbp :> 5) @@ (rsi :> 6) @@ (rdi :> 7) @@
  (r8 :> 8) @@ (r9 :> 9) @@ (r10 :> 10) @@ (r11 :> 11) @@
  (r12 :> 12) @@ (r13 :> 13) @@ (r14 :> 14) @@ (r15 :> 15)

jika_kurang == <<"j", "i", "k", "a", "_", "k", "u", "r", "a", "n", "g">>
jika_lebih == <<"j", "i", "k", "a", "_", "l", "e", "b", "i", "h">>
jika_sama == <<"j", "i", "k", "a", "_", "s", "a", "m", "a">>
jika_beda == <<"j", "i", "k", "a", "_", "b", "e", "d", "a">>
jika_bukan_nol == <<"j", "i", "k", "a", "_", "b", "u", "k", "a", "n", "_", "n", "o", "l">>
jika_nol == <<"j", "i", "k", "a", "_", "n", "o", "l">>

\* the table with each condition exchanged for its opposite
JUMP_DIRECT ==
  (jika_kurang :> "jle") @@ (jika_lebih :> "jge") @@ (jika_sama :> "je") @@
  (jika_beda :> "jne") @@ (jika_bukan_nol :> "jne") @@ (jika_nol :> "je")

JUMP_INVERSE ==
  (jika_kurang :> "jge") @@ (jika_lebih :> "jle") @@ (jika_sama :> "jne") @@
  (jika_beda :> "je") @@ (jika_bukan_nol :> "je") @@ (jika_nol :> "jne")

fungsi == <<"f", "u", "n", "g", "s", "i">>
tutup_fungsi == <<"t", "u", "t", "u", "p", "_", "f", "u", "n", "g", "s", "i">>
tutup_jika == <<"t", "u", "t", "u", "p", "_", "j", "i", "k", "a">>
syscall == <<"s", "y", "s", "c", "a", "l", "l">>
push == <<"p", "u", "s", "h">>
pop == <<"p", "o", "p">>
sub == <<"s", "u", "b">>
add == <<"a", "d", "d">>
cmp == <<"c", "m", "p">>
mov == <<"m", "o", "v">>

(***************************************************************************)
(* Encoding helpers.                                                       *)
(***************************************************************************)
\* (reg & 7) << 3 and rm & 7 on register indices 0..15
encode_modrm(reg, rm) == 192 + (reg % 8) * 8 + (rm % 8)

\* the R and B bits exchanged
get_rex_swapped(w, r, x, b) ==
  64 + (IF w THEN 8 ELSE 0) + (IF b THEN 4 ELSE 0) + (IF x THEN 2 ELSE 0) + (IF r THEN 1 ELSE 0)

get_rex(w, r, x, b) ==
  64 + (IF w THEN 8 ELSE 0) + (IF r THEN 4 ELSE 0) + (IF x THEN 2 ELSE 0) + (IF b THEN 1 ELSE 0)

(***************************************************************************)
(* The Compiler object: [code, scope_stack, label_counter].  Its labels    *)
(* attribute is a reference to a dict, kept in the variable `labels`.      *)
(* A method's result is [c, labels, err], err the exception it raised.     *)
(***************************************************************************)
NewCompiler == [code |-> <<>>, scope_stack |-> <<>>, label_counter |-> 0]

Ret(cs, lb) == [c |-> cs, labels |-> lb, err |-> "none"]
Raise(cs, lb, e) == [c |-> cs, labels |-> lb, err |-> e]

emit(cs, b) == [cs EXCEPT !.code = @ \o b]

RECURSIVE DecStr(_)
DecStr(n) == IF n < 10 THEN <<DecChars[n + 1]>> ELSE DecStr(n \div 10) \o <<DecChars[(n % 10) + 1]>>

\* f"L_{self.label_counter}"
LabelName(n) == <<"L", "_">> \o DecStr(n)

\* dict.get(key, default)
DictGet(d, k, default) == IF k \in DOMAIN d THEN d[k] ELSE default

\* d[k] = v
DictSet(d, k, v) == [x \in DOMAIN d \cup {k} |-> IF x = k THEN v ELSE d[x]]

OP == [jne |-> <<15, 133>>, je |-> <<15, 132>>, jge |-> <<15, 141>>, jle |-> <<15, 142>>, jmp |-> <<233>>]

\* a pass-1 placeholder of one byte, as for a short (rel8) branch
Placeholder_rel8 == <<0>>

Placeholder == <<0, 0, 0, 0>>

\* the displacement taken from the start of the displacement field
emit_jump_from_field(cs, lb, cond, label, pass_num) ==
  LET c1 == emit(cs, OP[cond])
  IN  IF pass_num = 1
        THEN Ret(emit(c1, Placeholder), lb)
        ELSE LET target == DictGet(lb, label, 0)
                 current == Len(c1.code)
                 rel == target - current
             IN  IF pack_i_ok(rel)
                   THEN Ret(emit(c1, pack_i(rel)), lb)
                   ELSE Raise(c1, lb, "struct.error")

emit_jump(cs, lb, cond, label, pass_num) ==
  LET c1 == emit(cs, OP[cond])
  IN  IF pass_num = 1
        THEN Ret(emit(c1, Placeholder), lb)
        ELSE LET target == DictGet(lb, label, 0)
                 current == Len(c1.code) + 4
                 rel == target - current
             IN  IF pack_i_ok(rel)
                   THEN Ret(emit(c1, pack_i(rel)), lb)
                   ELSE Raise(c1, lb, "struct.error")

\* new_label without the increment of the counter
OpenBlock_no_increment(cs, lb, mnemonic, pass_num) ==
  LET n == cs.label_counter + 1
      skip_label == LabelName(cs.label_counter)
      c1 == [cs EXCEPT !.scope_stack = Append(@, <<"IF", skip_label>>)]
  IN  emit_jump(c1, lb, JUMP_INVERSE[mnemonic], skip_label, pass_num)

\* a conditional keyword: new_label, push the scope, emit the inverted branch
OpenBlock(cs, lb, mnemonic, pass_num) ==
  LET n == cs.label_counter + 1
      skip_label == LabelName(n)
      c1 == [cs EXCEPT !.label_counter = n,
                       !.scope_stack = Append(@, <<"IF", skip_label>>)]
  IN  emit_jump(c1, lb, JUMP_INVERSE[mnemonic], skip_label, pass_num)

\* tutup_jika without the guard: list.pop() raises on an empty list
CloseBlock_unguarded(cs, lb) ==
  IF cs.scope_stack = <<>> THEN Raise(cs, lb, "IndexError")
  ELSE LET top == cs.scope_stack[Len(cs.scope_stack)]
           c1 == [cs EXCEPT !.scope_stack = SubSeq(@, 1, Len(@) - 1)]
       IN  Ret(c1, DictSet(lb, top[2], Len(cs.code)))

\* tutup_jika taking the oldest open scope, pop(0)
CloseBlock_fifo(cs, lb) ==
  IF cs.scope_stack = <<>> THEN Ret(cs, lb)
  ELSE LET top == cs.scope_stack[1]
           c1 == [cs EXCEPT !.scope_stack = Tail(@)]
       IN  Ret(c1, DictSet(lb, top[2], Len(cs.code)))

\* tutup_jika
CloseBlock(cs, lb) ==
  IF cs.scope_stack = <<>> THEN Ret(cs, lb)
  ELSE LET top == cs.scope_stack[Len(cs.scope_stack)]
           c1 == [cs EXCEPT !.scope_stack = SubSeq(@, 1, Len(@) - 1)]
       IN  IF top[1] = "IF"
             THEN Ret(c1, DictSet(lb, top[2], Len(cs.code)))
             ELSE Ret(c1, lb)

\* push (base = 0x50) and pop (base = 0x58)
PushPop(cs, lb, parts, base) ==
  IF Len(parts) < 2 THEN Raise(cs, lb, "IndexError")
  ELSE IF parts[2] \notin DOMAIN REG THEN Raise(cs, lb, "KeyError")
  ELSE LET reg == REG[parts[2]]
       IN  IF reg > 7
             THEN Ret(emit(cs, <<65, base + (reg % 8)>>), lb)
             ELSE Ret(emit(cs, <<base + reg>>), lb)

\* sub (ext = 5) and add (ext = 0): REX.W 81 /ext imm32
AluImm(cs, lb, parts, ext) ==
  IF Len(parts) < 2 THEN Raise(cs, lb, "IndexError")
  ELSE IF parts[2] \notin DOMAIN REG THEN Raise(cs, lb, "KeyError")
  ELSE IF Len(parts) < 3 THEN Raise(cs, lb, "IndexError")
  ELSE LET dest == REG[parts[2]]
           imm == parse_imm(parts[3])
           rex == get_rex(TRUE, FALSE, FALSE, dest > 7)
           modrm == encode_modrm(ext, dest)
           c1 == emit(cs, <<rex, 129, modrm>>)
       IN  IF ~imm.ok THEN Raise(cs, lb, "ValueError")
           ELSE IF ~pack_I_ok(imm.val) THEN Raise(c1, lb, "struct.error")
           ELSE Ret(emit(c1, pack_I(imm.val)), lb)

Cmp(cs, lb, parts) ==
  IF Len(parts) < 3 THEN Raise(cs, lb, "IndexError")
  ELSE LET op1 == parts[2]
           op2 == parts[3]
       IN  IF op1 \in DOMAIN REG /\ isdigit(op2)
             THEN LET dest == REG[op1]
                      imm == parse_imm(op2)
                      rex == get_rex(TRUE, FALSE, FALSE, dest > 7)
                      modrm == encode_modrm(7, dest)
                      c1 == emit(cs, <<rex, 129, modrm>>)
                  IN  IF ~imm.ok THEN Raise(cs, lb, "ValueError")
                      ELSE IF FitsImm8(imm.val)
                        THEN Ret(emit(cs, <<rex, 131, modrm, Imm8(imm.val)>>), lb)
                      ELSE IF ~pack_I_ok(imm.val) THEN Raise(c1, lb, "struct.error")
                      ELSE Ret(emit(c1, pack_I(imm.val)), lb)
           ELSE IF op1 \in DOMAIN REG /\ op2 \in DOMAIN REG
             THEN LET dest == REG[op1]
                      src == REG[op2]
                      rex == get_rex(TRUE, src > 7, FALSE, dest > 7)
                      modrm == encode_modrm(src, dest)
                  IN  Ret(emit(cs, <<rex, 57, modrm>>), lb)
           ELSE Ret(cs, lb)

\* mov with the opcode formed from the whole index, not its low 3 bits
Mov_whole_index(cs, lb, parts) ==
  IF Len(parts) < 3 THEN Raise(cs, lb, "IndexError")
  ELSE LET dest_str == parts[2]
           src_str == parts[3]
       IN  IF dest_str \in DOMAIN REG
              /\ (IsDecChar(src_str[1]) \/ startswith(src_str, <<"0", "x">>)
                    \/ startswith(src_str, <<"-">>))
             THEN LET dest == REG[dest_str]
                      imm == parse_imm(src_str)
                      opcode == 184 + dest
                      rex == get_rex(TRUE, FALSE, FALSE, dest > 7)
                  IN  IF ~imm.ok THEN Raise(cs, lb, "ValueError")
                      ELSE Ret(emit(emit(cs, <<rex, opcode>>), pack_Q_masked(imm.val)), lb)
           ELSE IF dest_str \in DOMAIN REG /\ src_str \in DOMAIN REG
             THEN LET dest == REG[dest_str]
                      src == REG[src_str]
                      rex == get_rex(TRUE, src > 7, FALSE, dest > 7)
                      modrm == encode_modrm(src, dest)
                  IN  Ret(emit(cs, <<rex, 137, modrm>>), lb)
           ELSE Ret(cs, lb)

Mov(cs, lb, parts) ==
  IF Len(parts) < 3 THEN Raise(cs, lb, "IndexError")
  ELSE LET dest_str == parts[2]
           src_str == parts[3]
       IN  IF dest_str \in DOMAIN REG
              /\ (IsDecChar(src_str[1]) \/ startswith(src_str, <<"0", "x">>)
                    \/ startswith(src_str, <<"-">>))
             THEN LET dest == REG[dest_str]
                      imm == parse_imm(src_str)
                      opcode == 184 + (dest % 8)
                      rex == get_rex(TRUE, FALSE, FALSE, dest > 7)
                  IN  IF ~imm.ok THEN Raise(cs, lb, "ValueError")
                      ELSE Ret(emit(emit(cs, <<rex, opcode>>), pack_Q_masked(imm.val)), lb)
           ELSE IF dest_str \in DOMAIN REG /\ src_str \in DOMAIN REG
             THEN LET dest == REG[dest_str]
                      src == REG[src_str]
                      rex == get_rex(TRUE, src > 7, FALSE, dest > 7)
                      modrm == encode_modrm(src, dest)
                  IN  Ret(emit(cs, <<rex, 137, modrm>>), lb)
           ELSE Ret(cs, lb)

compile_instr(cs, lb, parts, pass_num) ==
  IF parts = <<>> THEN Ret(cs, lb)
  ELSE LET mnemonic == parts[1]
       IN  IF startswith(mnemonic, <<";">>) THEN Ret(cs, lb)
           ELSE IF mnemonic = fungsi THEN Ret(cs, lb)
           ELSE IF mnemonic = tutup_fungsi THEN Ret(emit(cs, <<195>>), lb)
           ELSE IF mnemonic \in DOMAIN JUMP_INVERSE THEN OpenBlock(cs, lb, mnemonic, pass_num)
           ELSE IF mnemonic = tutup_jika THEN CloseBlock(cs, lb)
           ELSE IF mnemonic = syscall THEN Ret(emit(cs, <<15, 5>>), lb)
           ELSE IF mnemonic = push THEN PushPop(cs, lb, parts, 80)
           ELSE IF mnemonic = pop THEN PushPop(cs, lb, parts, 88)
           ELSE IF mnemonic = sub THEN AluImm(cs, lb, parts, 5)
           ELSE IF mnemonic = add THEN AluImm(cs, lb, parts, 0)
           ELSE IF mnemonic = cmp THEN Cmp(cs, lb, parts)
           ELSE IF mnemonic = mov THEN Mov(cs, lb, parts)
           ELSE Ret(cs, lb)

(***************************************************************************)
(* The image builder.                                                      *)
(***************************************************************************)
ELF_IDENT == <<127, 69, 76, 70, 2, 1, 1, 0, 0, 0, 0, 0, 0, 0, 0, 0>>

\* the segment size taken as the code size alone
make_elf_code_size(code) ==
  LET entry_point == 4194304 + 120
      elf_header ==
        ELF_IDENT \o pack_H(2) \o pack_H(62) \o pack_U32(1)
          \o pack_Q(entry_point)
          \o pack_Q(64) \o pack_Q(0) \o pack_U32(0)
          \o pack_H(64) \o pack_H(56) \o pack_H(1)
          \o pack_H(64) \o pack_H(0) \o pack_H(0)
      filesz == Len(code)
      phdr ==
        pack_U32(1) \o pack_U32(7) \o pack_Q(0)
          \o pack_Q(4194304) \o pack_Q(4194304)
          \o pack_Q(filesz) \o pack_Q(filesz) \o pack_Q(4096)
  IN  elf_header \o phdr \o code

\* the entry point placed after the 64-byte file header alone
make_elf_entry_64(code) ==
  LET entry_point == 4194304 + 64
      elf_header ==
        ELF_IDENT \o pack_H(2) \o pack_H(62) \o pack_U32(1)
          \o pack_Q(entry_point)
          \o pack_Q(64) \o pack_Q(0) \o pack_U32(0)
          \o pack_H(64) \o pack_H(56) \o pack_H(1)
          \o pack_H(64) \o pack_H(0) \o pack_H(0)
      filesz == 120 + Len(code)
      phdr ==
        pack_U32(1) \o pack_U32(7) \o pack_Q(0)
          \o pack_Q(4194304) \o pack_Q(4194304)
          \o pack_Q(filesz) \o pack_Q(filesz) \o pack_Q(4096)
  IN  elf_header \o phdr \o code

make_elf(code) ==
  LET entry_point == 4194304 + 120
      elf_header ==
        ELF_IDENT \o pack_H(2) \o pack_H(62) \o pack_U32(1)
          \o pack_Q(entry_point)
          \o pack_Q(64) \o pack_Q(0) \o pack_U32(0)
          \o pack_H(64) \o pack_H(56) \o pack_H(1)
          \o pack_H(64) \o pack_H(0) \o pack_H(0)
      filesz == 120 + Len(code)
      phdr ==
        pack_U32(1) \o pack_U32(7) \o pack_Q(0)
          \o pack_Q(4194304) \o pack_Q(4194304)
          \o pack_Q(filesz) \o pack_Q(filesz) \o pack_Q(4096)
  IN  elf_header \o phdr \o code

(***************************************************************************)
(* The sources the model runs.                                             *)
(***************************************************************************)
one == <<"1">>
nop == <<"n", "o", "p">>
rzz == <<"r", "z", "z">>

\* lines of the two-pass runs: block keywords, two instructions of
\* different sizes and a line that raises (an unknown register)
SourceLines ==
  { <<jika_sama>>, <<jika_lebih>>, <<tutup_jika>>,
    <<add, rax, one>>, <<syscall>>, <<push, rzz>> }

RECURSIVE SeqsUpTo(_, _)
SeqsUpTo(S, n) ==
  IF n = 0 THEN {<<>>}
  ELSE LET shorter == SeqsUpTo(S, n - 1)
       IN  shorter \cup {Append(q, x) : q \in {t \in shorter : Len(t) = n - 1}, x \in S}

Sources == SeqsUpTo(SourceLines, MaxLines)

(***************************************************************************)
(* main.                                                                   *)
(***************************************************************************)
\* the scope that is in the stack before a pop and no longer after it
Popped(before, after) ==
  LET k == CHOOSE k \in DOMAIN before :
             /\ \A j \in 1..(k - 1) : before[j] = after[j]
             /\ k = Len(before) \/ before[k] # after[k]
  IN  before[k]

\* what line i did to the labels in pass p: the label new_label returned and
\* pushed (line 76-77), or the label popped and assigned (lines 85-88)
LineEvents(p, i, before, r) ==
  LET parts == lines[i]
  IN  IF r.err # "none" \/ parts = <<>> THEN <<>>
      ELSE IF parts[1] \in DOMAIN JUMP_INVERSE
        THEN <<[pass |-> p, kind |-> "open", line |-> i,
                label |-> r.c.scope_stack[Len(r.c.scope_stack)][2],
                offset |-> Len(r.c.code)]>>
      ELSE IF parts[1] = tutup_jika /\ Len(r.c.scope_stack) < Len(before.scope_stack)
        THEN LET label == Popped(before.scope_stack, r.c.scope_stack)[2]
             IN  <<[pass |-> p, kind |-> "bind", line |-> i,
                    label |-> label, offset |-> DictGet(r.labels, label, -1)]>>
      ELSE <<>>

InitMain ==
  /\ pc = "pass1"
  /\ idx = 0
  /\ c = NewCompiler
  /\ c2 = NewCompiler
  /\ labels = <<>>
  /\ binary = <<>>
  /\ written = FALSE
  /\ err = "none"
  /\ trace1 = <<>>
  /\ trace2 = <<>>
  /\ events = <<>>

Init == lines \in Sources /\ InitMain

\* pass 1 with the exception of a line caught and the loop continued
Pass1Line_swallow ==
  /\ pc = "pass1"
  /\ idx < Len(lines)
  /\ LET r == compile_instr(c, labels, lines[idx + 1], 1)
     IN  /\ c' = r.c
         /\ labels' = r.labels
         /\ idx' = idx + 1
         /\ trace1' = Append(trace1, Len(r.c.code))
         /\ err' = IF r.err = "none" THEN err ELSE r.err
         /\ events' = events \o LineEvents(1, idx + 1, c, r)
         /\ UNCHANGED pc
  /\ UNCHANGED <<lines, c2, binary, written, trace2>>

\* one iteration of the loop of pass 1 (lines 224-225)
Pass1Line ==
  /\ pc = "pass1"
  /\ idx < Len(lines)
  /\ LET r == compile_instr(c, labels, lines[idx + 1], 1)
     IN  /\ c' = r.c
         /\ labels' = r.labels
         /\ events' = events \o LineEvents(1, idx + 1, c, r)
         /\ IF r.err = "none"
              THEN /\ idx' = idx + 1
                   /\ trace1' = Append(trace1, Len(r.c.code))
                   /\ UNCHANGED <<pc, err>>
              ELSE /\ pc' = "error"
                   /\ err' = r.err
                   /\ UNCHANGED <<idx, trace1>>
  /\ UNCHANGED <<lines, c2, binary, written, trace2>>

\* pass 2 started with the label counter where pass 1 left it
StartPass2_shared_counter ==
  /\ pc = "pass1"
  /\ idx = Len(lines)
  /\ pc' = "pass2"
  /\ idx' = 0
  /\ c2' = [NewCompiler EXCEPT !.label_counter = c.label_counter]
  /\ UNCHANGED <<lines, c, labels, binary, written, err, trace1, trace2, events>>

\* pass 1 is over: a new Compiler that shares the label dict (lines 227-231)
StartPass2 ==
  /\ pc = "pass1"
  /\ idx = Len(lines)
  /\ pc' = "pass2"
  /\ idx' = 0
  /\ c2' = NewCompiler
  /\ UNCHANGED <<lines, c, labels, binary, written, err, trace1, trace2, events>>

\* one iteration of the loop of pass 2 (lines 232-233)
Pass2Line ==
  /\ pc = "pass2"
  /\ idx < Len(lines)
  /\ LET r == compile_instr(c2, labels, lines[idx + 1], 2)
     IN  /\ c2' = r.c
         /\ labels' = r.labels
         /\ events' = events \o LineEvents(2, idx + 1, c2, r)
         /\ IF r.err = "none"
              THEN /\ idx' = idx + 1
                   /\ trace2' = Append(trace2, Len(r.c.code))
                   /\ UNCHANGED <<pc, err>>
              ELSE /\ pc' = "error"
                   /\ err' = r.err
                   /\ UNCHANGED <<idx, trace2>>
  /\ UNCHANGED <<lines, c, binary, written, trace1>>

\* binary = make_elf(c2.code) (line 235)
Build ==
  /\ pc = "pass2"
  /\ idx = Len(lines)
  /\ binary' = make_elf(c2.code)
  /\ pc' = "write"
  /\ UNCHANGED <<lines, idx, c, c2, labels, written, err, trace1, trace2, events>>

\* the output file is written and made executable (lines 236-238)
WriteOut ==
  /\ pc = "write"
  /\ written' = TRUE
  /\ pc' = "done"
  /\ UNCHANGED <<lines, idx, c, c2, labels, binary, err, trace1, trace2, events>>

Next == Pass1Line \/ StartPass2 \/ Pass2Line \/ Build \/ WriteOut

Spec == Init /\ [][Next]_vars

(***************************************************************************)
(* One-line sources over every register and a range of immediate           *)
(* literals: the encoder applied to each instruction form.                 *)
(***************************************************************************)
EncRegs == DOMAIN REG \cup {rzz}

EncImms ==
  { <<"0">>,
    <<"1">>,
    <<"1", "2", "7">>,
    <<"1", "2", "8">>,
    <<"-", "1">>,
    <<"2", "1", "4", "7", "4", "8", "3", "6", "4", "7">>,
    <<"2", "1", "4", "7", "4", "8", "3", "6", "4", "8">>,
    <<"4", "2", "9", "4", "9", "6", "7", "2", "9", "5">>,
    <<"4", "2", "9", "4", "9", "6", "7", "2", "9", "6">>,
    <<"-", "2", "1", "4", "7", "4", "8", "3", "6", "4", "8">>,
    <<"-", "2", "1", "4", "7", "4", "8", "3", "6", "4", "9">>,
    <<"0", "x", "3", "c">>,
    <<"0", "x", "1", "0">>,
    <<"0", "x", "7", "f">>,
    <<"0", "x", "8", "0">>,
    <<"0", "x", "f", "f", "f", "f", "f", "f", "f", "f">>,
    <<"0", "x">>,
    <<"1", "z">>,
    <<"+", "5">>,
    <<"1", "8", "4", "4", "6", "7", "4", "4", "0", "7", "3", "7", "0", "9", "5", "5", "1", "6", "1", "6">>,
    <<"0", "x", "1", "0", "0", "0", "0", "0", "0", "0", "0", "0", "0", "0", "0", "0", "0", "0", "1">>,
    <<"-", "9", "2", "2", "3", "3", "7", "2", "0", "3", "6", "8", "5", "4", "7", "7", "5", "8", "0", "9">> }

EncLines ==
  {<<m, r>> : m \in {push, pop}, r \in EncRegs}
    \cup {<<m, r, x>> : m \in {add, sub, cmp, mov}, r \in EncRegs, x \in EncImms \cup EncRegs}
    \cup {<<syscall>>, <<fungsi>>, <<tutup_fungsi>>, <<>>, <<nop>>, <<nop, rax>>}

\* one line, alone or followed by a syscall line
InitEnc == lines \in {<<l>> : l \in EncLines} \cup {<<l, <<syscall>>>> : l \in EncLines} /\ InitMain

SpecEnc == InitEnc /\ [][Next]_vars

(***************************************************************************)
(* make_elf applied to arbitrary code buffers.                             *)
(***************************************************************************)
CodeBytes == {15, 5, 195}

InitElf ==
  /\ lines = <<>>
  /\ pc = "pass2"
  /\ idx = 0
  /\ c = NewCompiler
  /\ \E code \in SeqsUpTo(CodeBytes, MaxCode) : c2 = [NewCompiler EXCEPT !.code = code]
  /\ labels = <<>>
  /\ binary = <<>>
  /\ written = FALSE
  /\ err = "none"
  /\ trace1 = <<>>
  /\ trace2 = <<>>
  /\ events = <<>>

NextElf == Build \/ WriteOut

SpecElf == InitElf /\ [][NextElf]_vars

(***************************************************************************)
(* Helpers of the properties.                                              *)
(***************************************************************************)
IsOpen(parts) == parts # <<>> /\ parts[1] \in DOMAIN JUMP_INVERSE
IsClose(parts) == parts # <<>> /\ parts[1] = tutup_jika

\* the line that closes the block opened before line j at relative depth d, or 0
RECURSIVE Scan(_, _)
Scan(j, d) ==
  IF j > Len(lines) THEN 0
  ELSE IF IsOpen(lines[j]) THEN Scan(j + 1, d + 1)
  ELSE IF IsClose(lines[j]) THEN (IF d = 0 THEN j ELSE Scan(j + 1, d - 1))
  ELSE Scan(j + 1, d)

MatchOf(i) == Scan(i + 1, 0)

\* code offset before line i in a pass with trace t
OffsetBefore(t, i) == IF i = 1 THEN 0 ELSE t[i - 1]

\* four bytes read as a signed little-endian integer
SignedLE32(b) ==
  IF b[4] >= 128
    THEN -((255 - b[1]) + 256 * (255 - b[2]) + 65536 * (255 - b[3]) + 16777216 * (255 - b[4])) - 1
    ELSE b[1] + 256 * b[2] + 65536 * b[3] + 16777216 * b[4]

\* the displacement field of the branch that line i emitted in pass 2
Disp2(i) == SignedLE32(SubSeq(c2.code, OffsetBefore(trace2, i) + 3, OffsetBefore(trace2, i) + 6))

\* the line being processed and the Compiler processing it
InPass == pc \in {"pass1", "pass2"} /\ idx < Len(lines)
CurLine == lines[idx + 1]
Cur == IF pc = "pass1" THEN c ELSE c2

(***************************************************************************)
(* C1. Pass invariance: after each line k that both passes have processed, *)
(* the code buffer of pass 2 is as long as the code buffer of pass 1 was,  *)
(* and so the two final buffers have the same length.                      *)
(***************************************************************************)
C1_PassInvariance ==
  /\ \A k \in DOMAIN trace2 : trace2[k] = trace1[k]
  /\ pc \in {"write", "done"} => Len(c2.code) = Len(c.code)

\* both passes finished a source with a branch, and their bytes differ
C1_Witness ==
  /\ pc = "done"
  /\ \E i \in DOMAIN lines : IsOpen(lines[i])
  /\ Len(c2.code) > 6
  /\ c2.code # c.code

(***************************************************************************)
(* C2. Displacement correctness: for every conditional block with a        *)
(* matching close, at any depth, the displacement pass 2 emitted plus the  *)
(* offset of the byte after the displacement field is the offset at which  *)
(* the matching close bound the label (in pass 1, and again in pass 2).    *)
(***************************************************************************)
C2_Displacement ==
  \A i \in DOMAIN trace2 :
    (IsOpen(lines[i]) /\ MatchOf(i) # 0) =>
      LET m == MatchOf(i)
          after == OffsetBefore(trace2, i) + 6
      IN  /\ Disp2(i) + after = trace1[m]
          /\ m \in DOMAIN trace2 => Disp2(i) + after = trace2[m]

\* a finished run with a block nested in another and a non-empty body
C2_Witness ==
  /\ pc = "done"
  /\ \E i, j \in DOMAIN lines :
       /\ i < j /\ j < MatchOf(i)
       /\ IsOpen(lines[i]) /\ IsOpen(lines[j]) /\ MatchOf(j) # 0
       /\ Disp2(i) > 6

(***************************************************************************)
(* C3. As claimed: a block-close processed while the scope stack is empty  *)
(* ends the translation in an error state.                                 *)
(***************************************************************************)
StrayClose == InPass /\ IsClose(CurLine) /\ Cur.scope_stack = <<>>

C4_NoOpenBlockAtBuild ==
  pc \in {"write", "done"} => c.scope_stack = <<>> /\ c2.scope_stack = <<>>

(***************************************************************************)
(* C5. No partial output: the image is built and written only after pass 1 *)
(* and pass 2 have each processed every line without error; after an error *)
(* there is no image and no output file.                                   *)
(***************************************************************************)
C5_NoPartialOutput ==
  /\ (pc \in {"write", "done"} \/ written \/ binary # <<>>) =>
       /\ err = "none"
       /\ Len(trace1) = Len(lines)
       /\ Len(trace2) = Len(lines)
  /\ (pc = "error" \/ err # "none") => binary = <<>> /\ ~written /\ pc = "error"

\* a line raised after earlier lines had emitted code
C5_Witness == pc = "error" /\ err = "KeyError" /\ Len(c.code) > 0 /\ ~written

(***************************************************************************)
(* C6. As claimed: a branch processed in pass 2 whose label is not in the  *)
(* label table ends the translation in an error state.                     *)
(***************************************************************************)
UnboundBranch ==
  /\ pc = "pass2" /\ idx < Len(lines) /\ IsOpen(CurLine)
  /\ LabelName(c2.label_counter + 1) \notin DOMAIN labels

C6_UnboundBranchFails == [][UnboundBranch => pc' = "error"]_vars

(***************************************************************************)
(* Reading the image back.                                                 *)
(***************************************************************************)
RECURSIVE LEValue(_)
LEValue(b) == IF b = <<>> THEN 0 ELSE b[1] + 256 * LEValue(Tail(b))

Field(img, offset, size) == LEValue(SubSeq(img, offset + 1, offset + size))

e_entry(img) == Field(img, 24, 8)
e_phoff(img) == Field(img, 32, 8)
e_ehsize(img) == Field(img, 52, 2)
e_phentsize(img) == Field(img, 54, 2)
e_phnum(img) == Field(img, 56, 2)
p_offset(img) == Field(img, e_phoff(img) + 8, 8)
p_vaddr(img) == Field(img, e_phoff(img) + 16, 8)
p_filesz(img) == Field(img, e_phoff(img) + 32, 8)
p_memsz(img) == Field(img, e_phoff(img) + 40, 8)

\* the size of the headers the image declares: file header and program headers
header_size(img) == e_ehsize(img) + e_phentsize(img) * e_phnum(img)

Built == pc \in {"write", "done"}

(***************************************************************************)
(* C7. Image shape: for a code buffer of length N >= 1 the program header  *)
(* declares file size and memory size header_size + N and the header       *)
(* declares the entry point base_address + header_size, header_size being  *)
(* the size of the headers the image itself declares.                      *)
(***************************************************************************)
C7_ImageShape ==
  (Built /\ Len(c2.code) >= 1) =>
    /\ p_filesz(binary) = header_size(binary) + Len(c2.code)
    /\ p_memsz(binary) = header_size(binary) + Len(c2.code)
    /\ e_entry(binary) = p_vaddr(binary) + header_size(binary)
    /\ p_vaddr(binary) = 4194304

\* an image was built from a code buffer of several bytes
C7_Witness == pc = "done" /\ Len(c2.code) >= 2 /\ p_filesz(binary) > 121

(***************************************************************************)
(* C8. The one loadable segment spans the whole file and the code follows  *)
(* the headers: the declared segment size is the length of the image, the  *)
(* segment starts at file offset 0 mapped at the base address, and         *)
(* entry point - base address is the file offset of the first code byte,   *)
(* image length - code length, from which the image holds the code.        *)
(***************************************************************************)
C8_SegmentSpansFile ==
  Built =>
    LET N == Len(c2.code)
        start == e_entry(binary) - p_vaddr(binary)
    IN  /\ p_filesz(binary) = Len(binary)
        /\ p_offset(binary) = 0
        /\ p_vaddr(binary) = 4194304
        /\ e_phnum(binary) = 1
        /\ start = Len(binary) - N
        /\ SubSeq(binary, start + 1, start + N) = c2.code

\* an image was built from a non-empty code buffer and written
C8_Witness == pc = "done" /\ written /\ Len(c2.code) >= 1 /\ Len(binary) > 120

(***************************************************************************)
(* Helpers of the encoder properties.                                      *)
(***************************************************************************)
\* pass 1 has processed the source, or stopped on an error
Pass1Over == pc # "pass1" \/ idx = Len(lines)

IsRegImm(parts, mnemonics) ==
  /\ Len(parts) = 3
  /\ parts[1] \in mnemonics
  /\ parts[2] \in DOMAIN REG
  /\ parse_imm(parts[3]).ok

\* -2^31 <= v <= 2^31 - 1
InSigned32(v) ==
  \/ Len(v.mag) <= 3
  \/ Len(v.mag) = 4 /\ v.mag[4] <= 127
  \/ v.neg /\ v.mag = <<0, 0, 0, 128>>

TwosComplement32(v) ==
  IF v.neg THEN AddOne(Complement(Pad(v.mag, 4))) ELSE Pad(v.mag, 4)

(***************************************************************************)
(* C9. As claimed: add reg, imm and sub reg, imm accept exactly the        *)
(* immediates of the signed 32-bit range, and for each of them emit 7      *)
(* bytes: prefix, 0x81, mode byte, the immediate as 4-byte little-endian   *)
(* two's complement.                                                       *)
(***************************************************************************)
C9_SignedImm32 ==
  (Len(lines) = 1 /\ Pass1Over /\ IsRegImm(lines[1], {add, sub})) =>
    LET v == parse_imm(lines[1][3]).val
    IN  /\ InSigned32(v) <=> err = "none"
        /\ InSigned32(v) =>
             /\ Len(c.code) = 7
             /\ c.code[2] = 129
             /\ SubSeq(c.code, 4, 7) = TwosComplement32(v)

(***************************************************************************)
(* C10. As claimed: cmp reg, imm emits an instruction for every parsable   *)
(* immediate literal (decimal, or hex with the 0x prefix): 4 bytes with    *)
(* opcode 0x83 when the value is in 0..127, otherwise 7 bytes with opcode  *)
(* 0x81; never zero bytes.                                                 *)
(***************************************************************************)
C10_CmpImmAlwaysEmits ==
  (Len(lines) = 1 /\ Pass1Over /\ IsRegImm(lines[1], {cmp})) =>
    LET v == parse_imm(lines[1][3]).val
    IN  /\ err = "none"
        /\ IF FitsImm8(v)
             THEN Len(c.code) = 4 /\ c.code[2] = 131
             ELSE Len(c.code) = 7 /\ c.code[2] = 129

(***************************************************************************)
(* Helpers of the one-line properties.                                     *)
(***************************************************************************)
\* the bytes line 1 emitted in pass 1, once it has been processed
Line1Done == Len(trace1) >= 1
Line1Code == SubSeq(c.code, 1, trace1[1])

RegMnemonics == {mov, push, pop, add, sub, cmp}

(***************************************************************************)
(* C11. As claimed: for mov, push, pop, add, sub and cmp, a register       *)
(* operand that is not one of the 16 names ends the translation in an      *)
(* error state with no byte emitted for the line; the line is never        *)
(* skipped with the translation going on.                                  *)
(***************************************************************************)
C11_UnknownRegisterFails ==
  (/\ Pass1Over
   /\ Len(lines[1]) >= 2
   /\ lines[1][1] \in RegMnemonics
   /\ lines[1][2] \notin DOMAIN REG) =>
     pc = "error" /\ c.code = <<>>

(***************************************************************************)
(* C12. As claimed: a line that is not blank and not a comment either      *)
(* emits bytes or changes the block stack, or ends the translation in an   *)
(* error state; it never leaves the Compiler unchanged with the            *)
(* translation going on (fungsi, which is defined to emit nothing, aside). *)
(***************************************************************************)
C12_NoSilentSkip ==
  (/\ Line1Done
   /\ lines[1] # <<>>
   /\ ~startswith(lines[1][1], <<";">>)
   /\ lines[1][1] # fungsi) =>
     Line1Code # <<>> \/ c.scope_stack # <<>>

(***************************************************************************)
(* C13. Round-trip register encoding: from the bytes a line emitted, the   *)
(* destination index is 8 * REX.B + (mode byte & 7) and, in the reg,reg    *)
(* forms of mov and cmp, the source index is 8 * REX.R + ((mode byte >> 3) *)
(* & 7); for push, pop and mov reg, imm the low 3 bits are in the opcode   *)
(* byte and the extension bit in the prefix (no prefix: bit 0).            *)
(***************************************************************************)
HasRex(b) == b[1] >= 64 /\ b[1] <= 79
RexB(b) == IF HasRex(b) THEN b[1] % 2 ELSE 0
RexR(b) == IF HasRex(b) THEN (b[1] \div 4) % 2 ELSE 0
\* the byte after the optional prefix, and the one after it
Opcode(b) == IF HasRex(b) THEN b[2] ELSE b[1]
ModRM(b) == b[3]

OpcodeForm(parts) ==
  \/ parts[1] \in {push, pop}
  \/ parts[1] = mov /\ Len(parts) >= 3 /\ parts[3] \notin DOMAIN REG

C13_RegisterRoundTrip ==
  (/\ Line1Done
   /\ Line1Code # <<>>
   /\ lines[1][1] \in RegMnemonics) =>
     LET b == Line1Code
         parts == lines[1]
     IN  IF OpcodeForm(parts)
           THEN REG[parts[2]] = 8 * RexB(b) + (Opcode(b) % 8)
           ELSE /\ REG[parts[2]] = 8 * RexB(b) + (ModRM(b) % 8)
                /\ parts[3] \in DOMAIN REG =>
                     REG[parts[3]] = 8 * RexR(b) + ((ModRM(b) \div 8) % 8)

\* mov r9, r12 was encoded: both extension bits are set
C13_Witness ==
  /\ pc = "done"
  /\ lines[1] = <<mov, r9, r12>>
  /\ RexB(Line1Code) = 1 /\ RexR(Line1Code) = 1

(***************************************************************************)
(* C14. mov reg, imm emits exactly 10 bytes for every register and every   *)
(* immediate literal (decimal, negative decimal or 0x hex): prefix 0x48,   *)
(* or 0x49 for an index >= 8, opcode 0xB8 + (index mod 8), then the        *)
(* immediate as 8 bytes little-endian, two's complement modulo 2^64; and   *)
(* `mov rax, 0x3c` followed by `syscall` gives                             *)
(* 48 B8 3C 00 00 00 00 00 00 00 0F 05.                                    *)
(***************************************************************************)
RECURSIVE AddBytes(_, _, _)
AddBytes(x, y, carry) ==
  IF x = <<>> THEN <<>>
  ELSE LET v == x[1] + y[1] + carry
       IN  <<v % 256>> \o AddBytes(Tail(x), Tail(y), v \div 256)

Zero8 == <<0, 0, 0, 0, 0, 0, 0, 0>>

\* b is v modulo 2^64: v's low 8 bytes, or what adds up with |v| to 0
IsMod64(b, v) ==
  IF v.neg THEN AddBytes(b, Pad(v.mag, 8), 0) = Zero8 ELSE b = Pad(v.mag, 8)

IsMovImm(parts) ==
  /\ Len(parts) = 3
  /\ parts[1] = mov
  /\ parts[2] \in DOMAIN REG
  /\ parse_imm(parts[3]).ok
  /\ parts[3][1] # "+"

MovImmBytes(b, parts) ==
  /\ Len(b) = 10
  /\ b[1] = (IF REG[parts[2]] >= 8 THEN 73 ELSE 72)
  /\ b[2] = 184 + (REG[parts[2]] % 8)
  /\ IsMod64(SubSeq(b, 3, 10), parse_imm(parts[3]).val)

IsEvent(e, p, k) == e.pass = p /\ e.kind = k

\* the events of one kind of one pass, in order
Opens(p) == SelectSeq(events, LAMBDA e : IsEvent(e, p, "open"))
Binds(p) == SelectSeq(events, LAMBDA e : IsEvent(e, p, "bind"))

BindIndices == {i \in DOMAIN events : events[i].kind = "bind"}

(***************************************************************************)
(* C15. As claimed: each label's offset is assigned exactly once over the  *)
(* whole translation, by a close of pass 1, and pass 2 writes no entry of  *)
(* the label table.                                                        *)
(***************************************************************************)
C15_AssignedOnce ==
  \A i \in BindIndices :
    /\ events[i].pass = 1
    /\ \A j \in BindIndices : events[j].label = events[i].label => i = j

(***************************************************************************)
(* C15, amended. Each label's offset is assigned at most once in each      *)
(* pass, by the close of its owning block; pass 2 assigns again every      *)
(* label it closes, a label that pass 1 assigned, and with the same        *)
(* offset, so that no entry's value changes after its first assignment.    *)
(***************************************************************************)
C15_AssignedOncePerPass ==
  \A i \in BindIndices :
    /\ \A j \in BindIndices :
         events[j].label = events[i].label =>
           /\ events[j].pass = events[i].pass => i = j
           /\ events[j].offset = events[i].offset
    /\ events[i].pass = 2 =>
         \E j \in BindIndices : events[j].pass = 1 /\ events[j].label = events[i].label
    /\ events[i].label \in DOMAIN labels
    /\ labels[events[i].label] = events[i].offset

\* pass 2 has assigned a label anew, at a non-zero offset, and finished
C15_Witness ==
  /\ pc = "done"
  /\ \E i \in BindIndices : events[i].pass = 2 /\ events[i].offset > 6

(***************************************************************************)
(* C16. Every block-open allocates a label no earlier block-open of the    *)
(* same pass received, whatever opens and closes came before, and the k-th *)
(* block-open of pass 2 receives the label of the k-th block-open of pass  *)
(* 1, which is the open of the same line.                                  *)
(***************************************************************************)
C16_UniqueLabels ==
  /\ \A p \in {1, 2} :
       \A i, j \in DOMAIN Opens(p) : Opens(p)[i].label = Opens(p)[j].label => i = j
  /\ \A k \in DOMAIN Opens(2) :
       /\ k \in DOMAIN Opens(1)
       /\ Opens(2)[k].label = Opens(1)[k].label
       /\ Opens(2)[k].line = Opens(1)[k].line

\* a block was closed and another opened after it, in both passes
C16_Witness ==
  /\ pc = "done"
  /\ Len(Opens(2)) >= 2
  /\ \E b \in DOMAIN Binds(2) :
       Opens(2)[1].line < Binds(2)[b].line /\ Binds(2)[b].line < Opens(2)[2].line

(***************************************************************************)
(* C17. For every matched conditional block the displacement emitted in    *)
(* pass 2 is the total encoded length of the lines between the open and    *)
(* its matching close, nested branches included: never negative, 0 for an  *)
(* empty block, and 7 for a block that holds only `add rax, 1`, where the  *)
(* branch of jika_sama has the opcode 0F 85.                               *)
(***************************************************************************)
LineLen(t, k) == t[k] - OffsetBefore(t, k)

RECURSIVE BodyLen(_, _, _)
BodyLen(t, from, to) == IF from > to THEN 0 ELSE LineLen(t, from) + BodyLen(t, from + 1, to)

C17_DisplacementIsBodyLength ==
  \A i \in DOMAIN trace2 :
    (IsOpen(lines[i]) /\ MatchOf(i) \in DOMAIN trace2) =>
      LET m == MatchOf(i)
          at == OffsetBefore(trace2, i)
      IN  /\ Disp2(i) = BodyLen(trace2, i + 1, m - 1)
          /\ Disp2(i) >= 0
          /\ m = i + 1 => Disp2(i) = 0
          /\ (lines[i] = <<jika_sama>> /\ m = i + 2 /\ lines[i + 1] = <<add, rax, one>>) =>
               /\ Disp2(i) = 7
               /\ SubSeq(c2.code, at + 1, at + 2) = <<15, 133>>

\* jika_sama, add rax 1, tutup_jika was translated
C17_Witness ==
  /\ pc = "done"
  /\ \E i \in DOMAIN lines :
       /\ lines[i] = <<jika_sama>>
       /\ MatchOf(i) = i + 2
       /\ lines[i + 1] = <<add, rax, one>>
       /\ Disp2(i) = 7

(***************************************************************************)
(* C18. Blocks are closed in LIFO order: a close binds the label of the    *)
(* most recently opened block that is still open (the open it matches in   *)
(* the source text) and leaves the other open scopes as they were, so the  *)
(* stack holds the labels of the opens not yet closed, oldest first; a     *)
(* block B opened while A is open has its label bound before A's, at an    *)
(* offset <= A's.                                                          *)
(***************************************************************************)
\* the labels of the opens of pass p that no close has bound so far
StillOpen(p) ==
  LET bound == {Binds(p)[b].label : b \in DOMAIN Binds(p)}
      open == SelectSeq(Opens(p), LAMBDA e : e.label \notin bound)
  IN  [k \in DOMAIN open |-> <<"IF", open[k].label>>]

C18_LIFO ==
  /\ c.scope_stack = StillOpen(1)
  /\ c2.scope_stack = StillOpen(2)
  /\ \A i \in BindIndices :
       \E o \in DOMAIN Opens(events[i].pass) :
         /\ Opens(events[i].pass)[o].label = events[i].label
         /\ MatchOf(Opens(events[i].pass)[o].line) = events[i].line
  /\ \A ia, ib \in DOMAIN events :
       (/\ events[ia].kind = "open" /\ events[ib].kind = "open"
        /\ events[ia].pass = events[ib].pass
        /\ events[ia].line < events[ib].line
        /\ events[ib].line < MatchOf(events[ia].line)) =>
          \A ja \in BindIndices :
            (events[ja].pass = events[ia].pass /\ events[ja].label = events[ia].label) =>
              \E jb \in BindIndices :
                /\ events[jb].pass = events[ib].pass
                /\ events[jb].label = events[ib].label
                /\ jb < ja
                /\ events[jb].offset <= events[ja].offset

\* two nested blocks with code between their closes were translated
C18_Witness ==
  /\ pc = "done"
  /\ Len(Binds(2)) >= 2
  /\ Binds(2)[1].label = Opens(2)[2].label
  /\ Binds(2)[2].label = Opens(2)[1].label
  /\ Binds(2)[1].offset < Binds(2)[2].offset

(***************************************************************************)
(* C19. Pass 2 runs on the label table of pass 1 and executes the bind at  *)
(* every block-close again, yet no step of pass 2 changes the table: its   *)
(* keys and offsets stay those of the end of pass 1, for every source,     *)
(* those with unmatched closes or unterminated blocks included.            *)
(***************************************************************************)
C19_TableUnchangedInPass2 == [][pc = "pass2" => labels' = labels]_vars

\* pass 2 executed a bind again in a source that also leaves a block open
C19_Witness ==
  /\ pc = "done"
  /\ Len(Binds(2)) >= 1
  /\ c2.scope_stack # <<>>
  /\ labels # <<>>

====
